---- MODULE Spec2Model ----
(***************************************************************************)
(* PythonPhot: rinter.rinter (cubic interpolation of a look-up table) and  *)
(* dao_value.dao_value (DAOPHOT point-spread function = Gaussian + table). *)
(*                                                                         *)
(* Numbers.  Every quantity of the two functions is a dyadic rational in   *)
(* the inputs drawn here, so IEEE doubles compute it exactly and the model *)
(* carries it as a scaled integer:                                         *)
(*   grid coordinates (rinter's x, y)        in halves    (x = u/2)        *)
(*   caller coordinates (dao_value's xx, yy) in quarters  (xx = a/4)       *)
(*   c1, c2, c3, d1, d2, d3                  times 2                       *)
(*   y_1 .. y2                               times 16                      *)
(*   dy_1 .. dy2                             times 8                       *)
(*   z, value                                times 256                     *)
(*   dfdx, dfdy, dvdx, dvdy                  times 128                     *)
(* Arrays are records [shape, v]: shape is numpy's shape tuple (<< >> for  *)
(* a scalar) and v the elements in row-major order.                        *)
(***************************************************************************)
EXTENDS Integers, Sequences, FiniteSets, TLC

\* Largest look-up table size N drawn (tables are 5 x 5 .. MaxN x MaxN).
MaxN == 6

Max(S) == CHOOSE m \in S : \A k \in S : k <= m
Min(S) == CHOOSE m \in S : \A k \in S : m <= k

\* numpy's size of a shape tuple
Size(shape) ==
  IF Len(shape) = 0 THEN 1
  ELSE IF Len(shape) = 1 THEN shape[1] ELSE shape[1] * shape[2]

\* x.astype(int) of a coordinate held in halves: truncation toward zero
AsInt(u) == IF u >= 0 THEN u \div 2 ELSE -((-u) \div 2)

\* int(np.sqrt(n))
ISqrt(n) == CHOOSE r \in 0..n : r * r <= n /\ (r + 1) * (r + 1) > n

\* the i-th element of a numpy broadcast of a length-len vector v
Bcast(v, len, m) == IF len = 1 THEN v[1] ELSE v[m]

\* c1 = 0.5*(p1 - p_1), times 2
Coef1(p_1, p0, p1, p2) == p1 - p_1
\* c2 = 2.*p1 + p_1 - 0.5*(5.*p + p2), times 2
Coef2(p_1, p0, p1, p2) == 4 * p1 + 2 * p_1 - (5 * p0 + p2)
\* c3 = 0.5*(3.*(p-p1) + p2 - p_1), times 2
Coef3(p_1, p0, p1, p2) == 3 * (p0 - p1) + p2 - p_1

\* dist*(dist*(dist*c3 + c2) + c1) + p0 with dist = n/2, times 16
Horner(c1, c2, c3, p0, n) == n * n * n * c3 + 2 * n * n * c2 + 4 * n * c1 + 16 * p0
\* dist*(dist*c3*3. + 2.*c2) + c1 with dist = n/2, times 8
DHorner(c1, c2, c3, n) == 3 * n * n * c3 + 4 * n * c2 + 4 * c1

\* the result of a call that ends in an exception
Raised(e) ==
  [status |-> "raise", err |-> e, zshape |-> << >>, z |-> << >>,
   dshape |-> << >>, dfdx |-> << >>, dfdy |-> << >>]

\* rinter lines 99-111: the /INIT block.  p_1, p1, p2 are the array p itself;
\* p_1[0,1] = p[:,0:nx-2] indexes p with two subscripts (IndexError on a 1-D
\* table) and stores a (rows, nx-2) slice into one element, which numpy accepts
\* only for a slice of exactly one element; p1[0,0] = p[:,1:] likewise.
InitBlockError(p, nx) ==
  IF Len(p.shape) < 2 THEN "IndexError"
  ELSE LET w1 == IF nx - 2 < 0 THEN 0
                 ELSE IF nx - 2 > p.shape[2] THEN p.shape[2] ELSE nx - 2
           s1 == p.shape[1] * w1
           s2 == p.shape[1] * (p.shape[2] - 1)
           s3 == p.shape[1] * (IF p.shape[2] >= 2 THEN p.shape[2] - 2 ELSE 0)
       IN IF s1 = 1 /\ s2 = 1 /\ s3 = 1 THEN "none" ELSE "ValueError"

\* the one element of a singleton set: {F(v) : v \in {e}} evaluates e once
Only(S) == CHOOSE r \in S : TRUE

\* rinter lines 117-123 and 132: i, j, and the subscripts x_1, x0, x1, x2
\* (r = 0, 1, 2, 3) of every sample, concatenated
RinterIndices(xv, yv, mx, my, nx) ==
  {nx * (AsInt(Bcast(yv, my, m)) - 1) + AsInt(Bcast(xv, mx, m)) + r * nx :
      m \in 1..(IF mx = 1 THEN my ELSE mx), r \in 0..3}

\* rinter lines 113-218 for 1-D (already flattened) x and y of lengths mx, my
\* broadcast to M samples, stride nx, on the array p; all is the set of
\* subscripts np.concatenate((x_1,x0,x1,x2)) holds and top its maximum:
\*   p 1-D            : every gathered element is a number
\*   p 2-D (ps1d call): every gathered element p[k] is a row, and the
\*                      arithmetic broadcasts over its ncol columns
RinterGather(p, xv, yv, mx, my, nx, deriv, all, top) ==
  LET M     == IF mx = 1 THEN my ELSE mx
      twoD  == Len(p.shape) = 2
      ncol  == IF twoD THEN p.shape[2] ELSE 1
      plen  == p.shape[1]
      I(m)  == AsInt(Bcast(xv, mx, m))
      J(m)  == AsInt(Bcast(yv, my, m))
      XD(m) == Bcast(xv, mx, m) - 2 * I(m)
      YD(m) == Bcast(yv, my, m) - 2 * J(m)
      \* x_1, x0, x1, x2 for r = 0, 1, 2, 3
      Idx(m, r) == nx * (J(m) - 1) + I(m) + r * nx
      xgood == {k \in all : k >= 0}
      pad   == top > plen - 3
      alen  == IF pad THEN top + 3 ELSE plen
      Res(k) == IF k < 0 THEN k + alen ELSE k
      InRange(k) == Res(k) >= 0 /\ Res(k) < alen
      \* p_new[k] (or p[k]) at column col, k a python subscript
      P(k, col) ==
        LET q == IF Res(k) < plen THEN Res(k) ELSE plen - 1
        IN IF twoD THEN p.v[q * ncol + col + 1] ELSE p.v[q + 1]
      C1(k, col) == IF Res(k) \in xgood
                    THEN Coef1(P(Res(k) - 1, col), P(Res(k), col),
                               P(Res(k) + 1, col), P(Res(k) + 2, col))
                    ELSE 0
      C2(k, col) == IF Res(k) \in xgood
                    THEN Coef2(P(Res(k) - 1, col), P(Res(k), col),
                               P(Res(k) + 1, col), P(Res(k) + 2, col))
                    ELSE 0
      C3(k, col) == IF Res(k) \in xgood
                    THEN Coef3(P(Res(k) - 1, col), P(Res(k), col),
                               P(Res(k) + 1, col), P(Res(k) + 2, col))
                    ELSE 0
      \* xdist broadcast against a gathered (M, ncol) array aligns with columns
      XDc(m, col) == IF twoD THEN XD(IF mx = 1 THEN 1 ELSE col + 1) ELSE XD(m)
      YDc(m, col) == IF twoD THEN YD(IF my = 1 THEN 1 ELSE col + 1) ELSE YD(m)
      Y(m, r, col)  == Horner(C1(Idx(m, r), col), C2(Idx(m, r), col),
                              C3(Idx(m, r), col), P(Idx(m, r), col), XDc(m, col))
      DY(m, r, col) == DHorner(C1(Idx(m, r), col), C2(Idx(m, r), col),
                               C3(Idx(m, r), col), XDc(m, col))
      Zc(m, col) ==
        LET a == Y(m, 0, col) b == Y(m, 1, col) c == Y(m, 2, col) d == Y(m, 3, col)
        IN Horner(Coef1(a, b, c, d), Coef2(a, b, c, d), Coef3(a, b, c, d), b, YDc(m, col))
      DXc(m, col) ==
        LET a == DY(m, 0, col) b == DY(m, 1, col) c == DY(m, 2, col) d == DY(m, 3, col)
        IN Horner(Coef1(a, b, c, d), Coef2(a, b, c, d), Coef3(a, b, c, d), b, YDc(m, col))
      DYc(m, col) ==
        LET a == Y(m, 0, col) b == Y(m, 1, col) c == Y(m, 2, col) d == Y(m, 3, col)
        IN DHorner(Coef1(a, b, c, d), Coef2(a, b, c, d), Coef3(a, b, c, d), YDc(m, col))
      Flat(F(_, _)) == [e \in 1..(M * ncol) |->
                          F(((e - 1) \div ncol) + 1, (e - 1) % ncol)]
      oshape == IF twoD THEN <<M, ncol>> ELSE <<M>>
  IN  IF top < 0 THEN Raised("ValueError")                \* max() of an empty xgood
      ELSE IF pad /\ twoD /\ ~(plen = 1 /\ ncol = 1)
        THEN Raised("ValueError")                         \* p_new[0:plen] = p
      ELSE IF \E k \in all : ~InRange(k) THEN Raised("IndexError")
      ELSE IF twoD /\ ~(mx \in {1, ncol} /\ my \in {1, ncol})
        THEN Raised("ValueError")                         \* xdist * c3[x_1]
      ELSE [status |-> "ok", err |-> "none",
            zshape |-> oshape, z |-> Flat(Zc),
            dshape |-> IF deriv THEN oshape ELSE << >>,
            dfdx |-> IF deriv THEN Flat(DXc) ELSE << >>,
            dfdy |-> IF deriv THEN Flat(DYc) ELSE << >>]

\* rinter lines 220-237: the results as returned
RinterReturn(core, reshape_flag, xshape) ==
  IF core.status # "ok" THEN core
  ELSE IF ~reshape_flag THEN core
  ELSE IF Size(core.zshape) # Size(xshape) THEN Raised("ValueError")   \* z.reshape
  ELSE [core EXCEPT !.zshape = xshape]

RinterCore(p, xv, yv, mx, my, nx, deriv) ==
  Only({RinterGather(p, xv, yv, mx, my, nx, deriv, t[1], t[2]) :
          t \in {<<a, Max(a)>> : a \in {RinterIndices(xv, yv, mx, my, nx)}}})

\* rinter.rinter(p, x, y, deriv, initialize, ps1d)
Rinter(p, x, y, deriv, initialize, ps1d) ==
  LET reshape_flag == Len(x.shape) > 1
      mx == Size(x.shape)
      my == Size(y.shape)
      nx == IF ps1d THEN ISqrt(p.shape[1]) ELSE p.shape[2]
      pf == IF ps1d THEN p ELSE [shape |-> <<Size(p.shape)>>, v |-> p.v]
  IN  IF reshape_flag /\ Len(y.shape) < 2 THEN Raised("IndexError")   \* yshape[1]
      ELSE IF ~ps1d /\ Len(p.shape) < 2 THEN Raised("IndexError")      \* c[1]
      ELSE IF initialize
        THEN IF InitBlockError(p, nx) # "none"
             THEN Raised(InitBlockError(p, nx))
             ELSE Raised("NameError")          \* init = 1: y1, y_1, y0, y2 never bound
      ELSE IF mx # my /\ mx # 1 /\ my # 1 THEN Raised("ValueError")    \* c[1]*(j-1) + i
      ELSE IF Len(x.shape) = 0 /\ Len(y.shape) = 0
        THEN Raised("ValueError")              \* np.concatenate of 0-d arrays
      ELSE Only({RinterReturn(core, reshape_flag, x.shape) :
                   core \in {RinterCore(pf, x.v, y.v, mx, my, nx, deriv)}})

\* daoerf.daoerf(xx, yy, gauss): the analytic Gaussian, an external collaborator.
\* e has the shape of xx and pder is 3 x len; gauss = <<amplitude, x0, y0,
\* sigma_x, sigma_y>>, and an amplitude of 0 contributes 0 everywhere.
Daoerf(xx, yy, gauss) ==
  LET len == Size(xx.shape)
      yq(m) == Bcast(yy.v, Size(yy.shape), m)
  IN [e    |-> [shape |-> xx.shape, v |-> [m \in 1..len |-> gauss[1] * (1 + m)]],
      pder |-> [m \in 1..len |->
                  <<1 + m, gauss[1] * (xx.v[m] - 4 * gauss[2] + 1),
                    gauss[1] * (yq(m) - 4 * gauss[3] + 2)>>]]

\* the edge test applied to the first sample of the batch alone
DaoEdgeFirst(x, y, npsf) ==
  x.v[1] < 2 \/ x.v[1] > 2 * (npsf - 2) \/ y.v[1] < 2 \/ y.v[1] > 2 * (npsf - 2)

\* the edge test with its upper limit one cell too far out (npsf-1 for npsf-2)
DaoEdgeWide(x, y, npsf) ==
  LET xs == {x.v[m] : m \in 1..Len(x.v)}
      ys == {y.v[m] : m \in 1..Len(y.v)}
  IN Min(xs) < 2 \/ Max(xs) > 2 * (npsf - 1) \/ Min(ys) < 2 \/ Max(ys) > 2 * (npsf - 1)

\* dao_value lines 68-69: np.min(x) < 1. or np.max(x) > npsf-2. or the same for y
DaoEdge(x, y, npsf) ==
  LET xs == {x.v[m] : m \in 1..Len(x.v)}
      ys == {y.v[m] : m \in 1..Len(y.v)}
  IN Min(xs) < 2 \/ Max(xs) > 2 * (npsf - 2) \/ Min(ys) < 2 \/ Max(ys) > 2 * (npsf - 2)

\* the result of dao_value ending in an exception
DaoRaised(e, gaussCalled, rinterCalled) ==
  [status |-> "raise", err |-> e, edge |-> FALSE,
   calledGauss |-> gaussCalled, calledRinter |-> rinterCalled,
   vshape |-> << >>, value |-> << >>, dxshape |-> << >>, dvdx |-> << >>,
   dyshape |-> << >>, dvdy |-> << >>]

\* numpy's a + b for the shapes that arise here: equal shapes, a one-element
\* operand, or a 1-D operand against the last axis of a 2-D one; <<-1>> if the
\* shapes do not broadcast
BShape(sa, sb) ==
  IF sa = sb THEN sa
  ELSE IF Size(sa) = 1 /\ Len(sa) <= Len(sb) THEN sb
  ELSE IF Size(sb) = 1 /\ Len(sb) <= Len(sa) THEN sa
  ELSE IF Len(sa) = 1 /\ Len(sb) = 2 /\ sa[1] = sb[2] THEN sb
  ELSE IF Len(sb) = 1 /\ Len(sa) = 2 /\ sb[1] = sa[2] THEN sa
  ELSE <<-1>>
BElem(a, out, e) ==
  IF Size(a.shape) = 1 THEN a.v[1]
  ELSE IF a.shape = out THEN a.v[e]
  ELSE a.v[((e - 1) % a.shape[1]) + 1]

\* dao_value lines 83-106: e and pder from daoerf (g) and the results of
\* rinter (r) combined
DaoCombine(xx, deriv, ps1d, g, r) ==
  LET \* e, reshaped to the shape of value when not ps1d
      es == IF ps1d THEN g.e.shape ELSE r.zshape
      vs == BShape(es, r.zshape)
      pd == <<Size(xx.shape)>>                       \* pder[1,:]
      ds == BShape(r.dshape, pd)
      ea == [shape |-> es, v |-> g.e.v]
      za == [shape |-> r.zshape, v |-> r.z]
      fx == [shape |-> r.dshape, v |-> r.dfdx]
      fy == [shape |-> r.dshape, v |-> r.dfdy]
      px == [shape |-> pd, v |-> [m \in 1..pd[1] |-> g.pder[m][2]]]
      py == [shape |-> pd, v |-> [m \in 1..pd[1] |-> g.pder[m][3]]]
  IN  IF r.status # "ok" THEN DaoRaised(r.err, TRUE, TRUE)
      ELSE IF ~ps1d /\ Len(r.zshape) < 2
        THEN DaoRaised("IndexError", TRUE, TRUE)         \* np.shape(value)[1]
      ELSE IF ~ps1d /\ Size(g.e.shape) # Size(r.zshape)
        THEN DaoRaised("ValueError", TRUE, TRUE)         \* e.reshape
      ELSE IF vs = <<-1>> THEN DaoRaised("ValueError", TRUE, TRUE)     \* e + value
      ELSE IF deriv /\ ds = <<-1>>
        THEN DaoRaised("ValueError", TRUE, TRUE)         \* 2.*dfdx - pder[1,:]
      ELSE [status |-> "ok", err |-> "none", edge |-> FALSE,
            calledGauss |-> TRUE, calledRinter |-> TRUE,
            vshape |-> vs,
            value |-> [e \in 1..Size(vs) |->
                         256 * BElem(ea, vs, e) + BElem(za, vs, e)],
            dxshape |-> IF deriv THEN ds ELSE << >>,
            dvdx |-> IF deriv
                     THEN [e \in 1..Size(ds) |->
                             2 * BElem(fx, ds, e) - 128 * BElem(px, ds, e)]
                     ELSE << >>,
            dyshape |-> IF deriv THEN ds ELSE << >>,
            dvdy |-> IF deriv
                     THEN [e \in 1..Size(ds) |->
                             2 * BElem(fy, ds, e) - 128 * BElem(py, ds, e)]
                     ELSE << >>]

\* dao_value lines 62-63: x = 2.*xx + half with half = (npsf-1)/2., in halves
Rescale(xx, npsf) ==
  [shape |-> xx.shape, v |-> [m \in 1..Len(xx.v) |-> xx.v[m] + (npsf - 1)]]

\* dao_value.dao_value(xx, yy, gauss, psf, psf1d, deriv, ps1d), psf1d being psf
\* flattened
DaoValue(xx, yy, gauss, psf, deriv, ps1d) ==
  LET npsf  == psf.shape[2]
      x     == Rescale(xx, npsf)
      y     == Rescale(yy, npsf)
      zero  == [m \in 1..Len(xx.v) |-> 0]
      psf1d == [shape |-> <<Size(psf.shape)>>, v |-> psf.v]
  IN  IF DaoEdge(x, y, npsf)
      THEN [status |-> "ok", err |-> "none", edge |-> TRUE,
            calledGauss |-> FALSE, calledRinter |-> FALSE,
            vshape |-> xx.shape, value |-> zero,
            dxshape |-> IF deriv THEN xx.shape ELSE << >>,
            dvdx |-> IF deriv THEN zero ELSE << >>,
            dyshape |-> IF deriv THEN xx.shape ELSE << >>,
            dvdy |-> IF deriv THEN zero ELSE << >>]
      ELSE Only({DaoCombine(xx, deriv, ps1d, g, r) :
                   g \in {Daoerf(xx, yy, gauss)},
                   r \in {IF deriv
                          THEN IF ps1d THEN Rinter(psf1d, x, y, TRUE, FALSE, TRUE)
                                       ELSE Rinter(psf, x, y, TRUE, FALSE, FALSE)
                          ELSE IF ps1d THEN Rinter(psf, x, y, FALSE, FALSE, TRUE)
                                       ELSE Rinter(psf, x, y, FALSE, FALSE, FALSE)}})

(***************************************************************************)
(* The callers' inputs.                                                    *)
(***************************************************************************)
Kinds == {"zero", "const", "bumpy"}
Entry(kind, e) ==
  CASE kind = "zero"  -> 0
    [] kind = "const" -> 1
    [] OTHER          -> (e * e) % 23

TableOf(kind, rows, cols) ==
  [shape |-> <<rows, cols>>, v |-> [e \in 1..(rows * cols) |-> Entry(kind, e)]]

\* the square look-up tables, and one table that is not square
Tables ==
  {TableOf(k, n, n) : k \in Kinds, n \in 5..MaxN} \cup {TableOf("bumpy", 5, 6)}

\* grid coordinates (halves) of a first sample on a table with n columns: x
\* over the interior [1, n-2] in steps of 1/2 and 1/2 on either side of it, y
\* at both ends of that range
NearX(n) == 1..(2 * n - 3)
NearY(n) == {1, 2, 3, 2 * (n - 2), 2 * n - 3}
Firsts(n) == NearX(n) \X NearY(n)
\* positions of a second sample: an interior one, the last node of the table,
\* -1/2, and a row far above the table
Companions(n) ==
  {<<3, 5>>, <<2 * (n - 1), 2 * (n - 1)>>, <<-1, -1>>, <<2, -2 * (n + 3)>>}
Singles(n) == Firsts(n) \cup Companions(n)
Pairs(n)   == Firsts(n) \X Companions(n)

Arr(shape, v) == [shape |-> shape, v |-> v]

\* batches whose xs and ys have the same shape
SameShape(n) ==
  {[x |-> Arr(sh, <<s[1]>>), y |-> Arr(sh, <<s[2]>>)] :
      sh \in {<< >>, <<1>>}, s \in Singles(n)}
  \cup
  {[x |-> Arr(sh, <<q[1][1], q[2][1]>>), y |-> Arr(sh, <<q[1][2], q[2][2]>>)] :
      sh \in {<<2>>, <<1, 2>>}, q \in Pairs(n)}
\* batches whose xs and ys differ in shape
Mismatched(n) ==
  {[x |-> Arr(<<2>>, <<q[1][1], q[2][1]>>), y |-> Arr(<<1>>, <<q[1][2]>>)] : q \in Pairs(n)}
  \cup
  {[x |-> Arr(<<1, 2>>, <<q[1][1], q[2][1]>>), y |-> Arr(sh, <<q[1][2], q[2][2]>>)] :
      sh \in {<<2, 1>>, <<2>>}, q \in Pairs(n)}
Batches(n) == SameShape(n) \cup Mismatched(n)

\* the caller coordinates (quarters) that dao_value rescales to grid batch b
Unscale(b, n) ==
  [x |-> Arr(b.x.shape, [m \in 1..Len(b.x.v) |-> b.x.v[m] - (n - 1)]),
   y |-> Arr(b.y.shape, [m \in 1..Len(b.y.v) |-> b.y.v[m] - (n - 1)])]

Gausses == {<<a, 0, 0, 1, 1>> : a \in 0..1}

(***************************************************************************)
(* The state: the caller's look-up table, and the call in progress.        *)
(***************************************************************************)
VARIABLES psf, pc, call, out

vars == <<psf, pc, call, out>>

NoCall == [api |-> "none"]
NoOut  == [status |-> "none"]

Init ==
  /\ psf \in Tables
  /\ pc = "idle"
  /\ call = NoCall
  /\ out = NoOut

\* the table as the caller hands it to rinter
TableArg(ps1d) == IF ps1d THEN Arr(<<Size(psf.shape)>>, psf.v) ELSE psf

\* Z = rinter(p, x, y, deriv, ps1d)
CallRinter ==
  /\ pc = "idle"
  /\ \E b \in Batches(psf.shape[2]), deriv \in BOOLEAN, ps1d \in BOOLEAN :
       /\ call' = [api |-> "rinter", x |-> b.x, y |-> b.y, deriv |-> deriv,
                   initialize |-> FALSE, ps1d |-> ps1d]
       /\ out' = Rinter(TableArg(ps1d), b.x, b.y, deriv, FALSE, ps1d)
  /\ pc' = "done"
  /\ UNCHANGED psf

\* rinter(p, x, y, initialize = True)
CallRinterInit ==
  /\ pc = "idle"
  /\ \E b \in {c \in SameShape(psf.shape[2]) : c.x.shape = <<1>>},
        deriv \in BOOLEAN, ps1d \in BOOLEAN :
       /\ call' = [api |-> "rinter", x |-> b.x, y |-> b.y, deriv |-> deriv,
                   initialize |-> TRUE, ps1d |-> ps1d]
       /\ out' = Rinter(TableArg(ps1d), b.x, b.y, deriv, TRUE, ps1d)
  /\ pc' = "done"
  /\ UNCHANGED psf

\* dao_value(xx, yy, gauss, psf, psf1d, deriv, ps1d)
CallDaoValue ==
  /\ pc = "idle"
  /\ \E b \in SameShape(psf.shape[2]), gauss \in Gausses,
        deriv \in BOOLEAN, ps1d \in BOOLEAN :
       LET a == Unscale(b, psf.shape[2])
       IN /\ call' = [api |-> "dao_value", x |-> a.x, y |-> a.y, deriv |-> deriv,
                      initialize |-> FALSE, ps1d |-> ps1d, gauss |-> gauss]
          /\ out' = DaoValue(a.x, a.y, gauss, psf, deriv, ps1d)
  /\ pc' = "done"
  /\ UNCHANGED psf

\* the caller takes the result (or the exception) and is free to call again
Return ==
  /\ pc = "done"
  /\ pc' = "idle"
  /\ call' = NoCall
  /\ out' = NoOut
  /\ UNCHANGED psf

Next == CallRinter \/ CallRinterInit \/ CallDaoValue \/ Return

Spec == Init /\ [][Next]_vars

(***************************************************************************)
(* Properties.                                                             *)
(***************************************************************************)
Square == psf.shape[1] = psf.shape[2]
NPSF   == psf.shape[2]
RinterDone == pc = "done" /\ call.api = "rinter"
DaoDone    == pc = "done" /\ call.api = "dao_value"
Samples(a) == 1..Len(a.v)
\* a grid coordinate (halves) within [1, N-2]
InGuard(u) == 2 <= u /\ u <= 2 * (NPSF - 2)
\* the grid coordinate (halves) of caller coordinate a (quarters): 2*a/4 + (N-1)/2
Grid(a) == a + (NPSF - 1)
AllZero(v) == \A e \in 1..Len(v) : v[e] = 0

\* C1: dao_value's edge test is all-or-nothing.  If any rescaled coordinate of
\* the batch is below 1 or above N-2, the call does not raise, calls neither
\* daoerf nor rinter, and returns zeros of the shape of xs (three of them when
\* derivatives are requested); if all lie in [1, N-2] the zero-filled early
\* return is not taken.
EdgeGuardAllOrNothing ==
  DaoDone =>
    LET outside == \/ \E m \in Samples(call.x) : ~InGuard(Grid(call.x.v[m]))
                   \/ \E m \in Samples(call.y) : ~InGuard(Grid(call.y.v[m]))
    IN /\ outside =>
            /\ out.status = "ok"
            /\ ~out.calledGauss /\ ~out.calledRinter
            /\ out.vshape = call.x.shape
            /\ Len(out.value) = Size(call.x.shape) /\ AllZero(out.value)
            /\ call.deriv =>
                 /\ out.dxshape = call.x.shape /\ out.dyshape = call.x.shape
                 /\ Len(out.dvdx) = Size(call.x.shape) /\ AllZero(out.dvdx)
                 /\ Len(out.dvdy) = Size(call.x.shape) /\ AllZero(out.dvdy)
       /\ ~outside => ~out.edge

\* a two-sample batch with derivatives whose first sample is in range and whose
\* second is not has been answered with zeros
EdgeGuardWitness ==
  /\ DaoDone /\ call.deriv /\ call.x.shape = <<2>>
  /\ InGuard(Grid(call.x.v[1])) /\ InGuard(Grid(call.y.v[1]))
  /\ ~InGuard(Grid(call.y.v[2]))
  /\ out.edge /\ out.dvdy = <<0, 0>>

\* C2: rinter preserves the shape of the batch: with every coordinate in the
\* interior and xs, ys of one shape S, 1-D of length M or 2-D R x C (the scalar
\* case is C6's), the call returns z of shape S and, with derivatives, dfdx and
\* dfdy of shape S: R x C for an R x C batch, not flattened to R*C.
ShapePreserved ==
  (/\ RinterDone /\ ~call.initialize /\ Square
   /\ call.x.shape = call.y.shape /\ Len(call.x.shape) >= 1
   /\ \A m \in Samples(call.x) : InGuard(call.x.v[m]) /\ InGuard(call.y.v[m]))
  => /\ out.status = "ok"
     /\ out.zshape = call.x.shape
     /\ call.deriv => out.dshape = call.x.shape

\* C3: rinter is exact at nodes: a sample at an interior node (i, j) of an
\* N x N table gets the table entry N*j + i, whatever the neighbouring entries
\* and the other samples of the batch are.
ExactAtNodes ==
  (/\ RinterDone /\ ~call.initialize /\ Square
   /\ call.x.shape = call.y.shape /\ Len(call.x.shape) >= 1)
  => \A m \in Samples(call.x) :
       (/\ InGuard(call.x.v[m]) /\ InGuard(call.y.v[m])
        /\ call.x.v[m] % 2 = 0 /\ call.y.v[m] % 2 = 0)
       => /\ out.status = "ok"
          /\ out.z[m] = 256 * psf.v[NPSF * (call.y.v[m] \div 2) + (call.x.v[m] \div 2) + 1]

\* C4: a constant table with a Gaussian of amplitude 0: dao_value returns the
\* constant at every batch whose rescaled coordinates lie in [1, N-2], with and
\* without derivatives and in either residual form.
ConstantField ==
  (/\ DaoDone /\ Square /\ ~out.edge /\ Len(call.x.shape) >= 1
   /\ call.gauss[1] = 0
   /\ \A e \in 1..Len(psf.v) : psf.v[e] = psf.v[1])
  => /\ out.status = "ok"
     /\ \A e \in 1..Len(out.value) : out.value[e] = 256 * psf.v[1]

\* C5: an all-zero table: dao_value with derivatives returns the value e of
\* daoerf, dvdx = -pder[1] and dvdy = -pder[2] at every batch whose rescaled
\* coordinates lie in [1, N-2].
ZeroResidual ==
  (/\ DaoDone /\ Square /\ ~out.edge /\ call.deriv /\ Len(call.x.shape) >= 1
   /\ \A e \in 1..Len(psf.v) : psf.v[e] = 0)
  => LET g == Daoerf(call.x, call.y, call.gauss)
     IN /\ out.status = "ok"
        /\ out.vshape = call.x.shape
        /\ \A m \in Samples(call.x) :
             /\ out.value[m] = 256 * g.e.v[m]
             /\ out.dvdx[m] = -128 * g.pder[m][2]
             /\ out.dvdy[m] = -128 * g.pder[m][3]

\* C6: a single interior coordinate pair passed as scalars completes and gives
\* what the one-element batches [x], [y] give, for rinter and for dao_value.
ScalarAsBatch ==
  /\ (/\ RinterDone /\ ~call.initialize /\ Square
       /\ call.x.shape = << >> /\ call.y.shape = << >>
       /\ InGuard(call.x.v[1]) /\ InGuard(call.y.v[1]))
     => LET one == Rinter(TableArg(call.ps1d), Arr(<<1>>, call.x.v), Arr(<<1>>, call.y.v),
                          call.deriv, FALSE, call.ps1d)
        IN /\ out.status = "ok"
           /\ out.z = one.z /\ out.dfdx = one.dfdx /\ out.dfdy = one.dfdy
  /\ (/\ DaoDone /\ Square /\ ~out.edge
       /\ call.x.shape = << >> /\ call.y.shape = << >>)
     => LET one == DaoValue(Arr(<<1>>, call.x.v), Arr(<<1>>, call.y.v), call.gauss,
                            psf, call.deriv, call.ps1d)
        IN /\ out.status = "ok"
           /\ out.value = one.value /\ out.dvdx = one.dvdx /\ out.dvdy = one.dvdy

\* C7: rinter never fails on out-of-range coordinates: on an N x N table every
\* 1-D batch, negative and beyond-the-border coordinates included, is answered
\* with results of the shape of the batch.
NeverRaisesOutOfRange ==
  (/\ RinterDone /\ ~call.initialize /\ Square
   /\ Len(call.x.shape) = 1 /\ call.x.shape = call.y.shape)
  => /\ out.status = "ok"
     /\ out.zshape = call.x.shape

\* C8: malformed input is reported: if the table is not square or xs and ys
\* differ in shape, the call ends in an error and returns no values.
MalformedReported ==
  (/\ pc = "done" /\ ~call.initialize
   /\ (~Square \/ call.x.shape # call.y.shape))
  => out.status = "raise"

\* C9: a call with initialize = True on a valid N x N table completes (and
\* builds the coefficients later calls reuse).
InitializeCompletes ==
  (/\ RinterDone /\ call.initialize /\ Square
   /\ InGuard(call.x.v[1]) /\ InGuard(call.y.v[1]))
  => out.status = "ok"

\* The weight with which the tap at offset d (-1, 0, 1 or 2) enters a cubic
\* evaluated at fraction n/2, as the code computes it: the value (times 16) and
\* the derivative (times 8) of the cubic through the unit samples of tap d.
Unit(d, t) == IF t = d THEN 1 ELSE 0
ValW(d, n) ==
  Horner(Coef1(Unit(d, -1), Unit(d, 0), Unit(d, 1), Unit(d, 2)),
         Coef2(Unit(d, -1), Unit(d, 0), Unit(d, 1), Unit(d, 2)),
         Coef3(Unit(d, -1), Unit(d, 0), Unit(d, 1), Unit(d, 2)), Unit(d, 0), n)
DerW(d, n) ==
  DHorner(Coef1(Unit(d, -1), Unit(d, 0), Unit(d, 1), Unit(d, 2)),
          Coef2(Unit(d, -1), Unit(d, 0), Unit(d, 1), Unit(d, 2)),
          Coef3(Unit(d, -1), Unit(d, 0), Unit(d, 1), Unit(d, 2)), n)
Taps == -1..2
\* row j+dr, column i+dc is an entry of the N x N table
RealTap(i, j, dr, dc) ==
  /\ 0 <= j + dr /\ j + dr <= NPSF - 1
  /\ 0 <= i + dc /\ i + dc <= NPSF - 1
\* the sample at grid position (gx, gy) (halves) takes every tap of non-zero
\* weight, in z, dfdx or dfdy, from an entry of the table
OnlyRealTaps(gx, gy) ==
  \A dr \in Taps, dc \in Taps :
    (\/ ValW(dr, gy - 2 * AsInt(gy)) * ValW(dc, gx - 2 * AsInt(gx)) # 0
     \/ ValW(dr, gy - 2 * AsInt(gy)) * DerW(dc, gx - 2 * AsInt(gx)) # 0
     \/ DerW(dr, gy - 2 * AsInt(gy)) * ValW(dc, gx - 2 * AsInt(gx)) # 0)
    => RealTap(AsInt(gx), AsInt(gy), dr, dc)
Sum4(F(_)) == F(-1) + F(0) + F(1) + F(2)
\* the weighted sum of the entries of the table around (gx, gy), row by
\* column, entries outside the table left out
TapSum(WR(_, _), WC(_, _), gx, gy) ==
  LET i == AsInt(gx)
      j == AsInt(gy)
      Term(dr, dc) ==
        IF RealTap(i, j, dr, dc)
        THEN WR(dr, gy - 2 * j) * WC(dc, gx - 2 * i) * psf.v[NPSF * (j + dr) + (i + dc) + 1]
        ELSE 0
      Row(dr) == Term(dr, -1) + Term(dr, 0) + Term(dr, 1) + Term(dr, 2)
  IN Sum4(Row)

====
